---- MODULE Spec2Model ----
(***************************************************************************)
(* Neural Particles: the hand-tracking controller (HandController.tsx),    *)
(* the shared signal record (lib/sharedState.ts) and the particle frame    *)
(* step (ParticleSystem.tsx) as one state machine.                         *)
(*                                                                         *)
(* Numbers.  A JavaScript number is modelled as an exact rational <<n, d>> *)
(* in lowest terms with d > 0, or as NaN == <<0, 0>>.  Arithmetic is exact *)
(* (IEEE-754 rounding is not modelled), NaN propagates through arithmetic  *)
(* and makes every comparison false, as in JavaScript.  Inputs are drawn   *)
(* so that no outcome rests on a rounding error (no wrist step of exactly  *)
(* the swipe threshold, only distances with an exact square root).         *)
(***************************************************************************)
EXTENDS Integers, Sequences, FiniteSets, TLC

-----------------------------------------------------------------------------
(* Rational arithmetic with NaN                                            *)

Abs(i) == IF i < 0 THEN -i ELSE i

RECURSIVE Gcd(_, _)
Gcd(a, b) == IF b = 0 THEN a ELSE Gcd(b, a % b)

Lcm(a, b) == (a \div Gcd(a, b)) * b

NaN == <<0, 0>>

IsNaN(r) == r[2] = 0

\* the rational n/d in lowest terms (d # 0)
R(n, d) ==
    LET g == Gcd(Abs(n), Abs(d))
        s == IF d < 0 THEN -1 ELSE 1
    IN  <<s * (n \div g), s * (d \div g)>>

Num(i) == <<i, 1>>

RAdd(a, b) ==
    IF IsNaN(a) \/ IsNaN(b) THEN NaN
    ELSE LET l == Lcm(a[2], b[2])
         IN  R(a[1] * (l \div a[2]) + b[1] * (l \div b[2]), l)

RNeg(a) == IF IsNaN(a) THEN NaN ELSE <<-a[1], a[2]>>

RSub(a, b) == RAdd(a, RNeg(b))

RMul(a, b) == IF IsNaN(a) \/ IsNaN(b) THEN NaN ELSE R(a[1] * b[1], a[2] * b[2])

\* a < b, false when either is NaN
RLt(a, b) ==
    /\ ~IsNaN(a)
    /\ ~IsNaN(b)
    /\ LET l == Lcm(a[2], b[2])
       IN  a[1] * (l \div a[2]) < b[1] * (l \div b[2])

RGt(a, b) == RLt(b, a)

RLe(a, b) == ~IsNaN(a) /\ ~IsNaN(b) /\ ~RLt(b, a)

RAbs(a) == IF IsNaN(a) THEN NaN ELSE <<Abs(a[1]), a[2]>>

\* Math.max / Math.min: NaN when an argument is NaN
MathMax(a, b) == IF IsNaN(a) \/ IsNaN(b) THEN NaN ELSE IF RLt(a, b) THEN b ELSE a

MathMin(a, b) == IF IsNaN(a) \/ IsNaN(b) THEN NaN ELSE IF RLt(b, a) THEN b ELSE a

ISqrt(k) == CHOOSE s \in 0..k : s * s = k

IsSquare(k) == \E s \in 0..k : s * s = k

\* Math.sqrt on the rationals that have a rational root (the inputs are drawn so)
MathSqrt(a) == IF IsNaN(a) THEN NaN ELSE <<ISqrt(a[1]), ISqrt(a[2])>>

-----------------------------------------------------------------------------
(* Constants of lib/constants.ts and HandController.tsx                    *)

SWIPE_THRESHOLD == R(6, 100)
SWIPE_COOLDOWN == 800
PINCH_MIN_DISTANCE == R(2, 100)
PINCH_SCALE_FACTOR == 7
PINCH_MAX_VALUE == R(3, 2)

HAND_X_LERP == R(1, 10)
PINCH_LERP_ACTIVE == R(2, 10)
\* the idle relaxation run with the factor of the active update
PINCH_LERP_INACTIVE_AsActive == R(2, 10)

PINCH_LERP_INACTIVE == R(5, 100)

WRIST == 0
THUMB_TIP == 4
INDEX_TIP == 8

\* the value of a ref that holds null
Null == <<>>

-----------------------------------------------------------------------------
(* Bounds of the model                                                     *)

\* processResults calls in one behaviour
MaxCalls == 4

\* Date.now() at the first step, in ms (any value above the cooldown)
StartTime == 100000

\* runs of the useEffect body (the first mount and the re-runs after a change
\* of config.modelComplexity, setupCamera, processResults or onError)
MaxEffects == 2

Instances == 1..MaxEffects

\* hands.send calls in one behaviour of the whole controller
MaxSends == 2

\* frame callbacks in one behaviour
MaxFrames == 2

\* setActiveShape calls in one behaviour
MaxNav == 4
MaxCount == 4

\* window resizes in one behaviour
MaxResizes == 2

-----------------------------------------------------------------------------
(* Results of one inference cycle (HandsResults)                           *)

Pt(x, y) == [x |-> x, y |-> y]

\* a landmark array of length len: entries 0, 4 and 8 as given
Hand(len, wrist, thumb, index) ==
    [i \in 0..(len - 1) |->
        IF i = WRIST THEN wrist
        ELSE IF i = THUMB_TIP THEN thumb
        ELSE IF i = INDEX_TIP THEN index
        ELSE Pt(R(1, 2), R(1, 2))]

\* results.multiHandLandmarks undefined
NoList == [hasList |-> FALSE, list |-> <<>>]

\* results.multiHandLandmarks = list
Results(list) == [hasList |-> TRUE, list |-> list]

\* thumb and index tips dx, dy apart
Tips(dx, dy) == <<Pt(R(1, 2), R(1, 2)), Pt(RAdd(R(1, 2), dx), RAdd(R(1, 2), dy))>>

\* a full 21-landmark hand with wrist x = wx and the given tips
FullHand(wx, tips) == Hand(21, Pt(wx, R(1, 2)), tips[1], tips[2])

-----------------------------------------------------------------------------
(* HandController.tsx: pure helpers                                        *)

calculateDistance(a, b) ==
    LET dx == RSub(a.x, b.x)
        dy == RSub(a.y, b.y)
    IN  MathSqrt(RAdd(RMul(dx, dx), RMul(dy, dy)))

normalizePinchDistance(rawDistance) ==
    LET normalized == RMul(RSub(rawDistance, PINCH_MIN_DISTANCE), Num(PINCH_SCALE_FACTOR))
    IN  MathMax(Num(0), MathMin(PINCH_MAX_VALUE, normalized))

\* a + (b - a) * t, the "+=" updates of processResults
LerpTo(a, b, t) == RAdd(a, RMul(RSub(b, a), t))

\* the swipe decision without the cooldown test of line 222
SwipeGesture_NoCooldown(lastX, currentX, timeSinceLastSwipe) ==
    IF lastX # Null
    THEN LET deltaX == RSub(currentX, lastX)
         IN  IF RGt(deltaX, SWIPE_THRESHOLD) THEN <<"next">>
             ELSE IF RLt(deltaX, RNeg(SWIPE_THRESHOLD)) THEN <<"prev">>
             ELSE <<>>
    ELSE <<>>

\* the swipe decision with the wrist x not inverted: the directions exchanged
SwipeGesture_Swapped(lastX, currentX, timeSinceLastSwipe) ==
    IF lastX # Null
    THEN LET deltaX == RSub(currentX, lastX)
         IN  IF timeSinceLastSwipe > SWIPE_COOLDOWN
             THEN IF RGt(deltaX, SWIPE_THRESHOLD) THEN <<"prev">>
                  ELSE IF RLt(deltaX, RNeg(SWIPE_THRESHOLD)) THEN <<"next">>
                  ELSE <<>>
             ELSE <<>>
    ELSE <<>>

\* the swipe decision with the threshold itself counting as a swipe
SwipeGesture_AtThreshold(lastX, currentX, timeSinceLastSwipe) ==
    IF lastX # Null
    THEN LET deltaX == RSub(currentX, lastX)
         IN  IF timeSinceLastSwipe > SWIPE_COOLDOWN
             THEN IF RLe(SWIPE_THRESHOLD, deltaX) THEN <<"next">>
                  ELSE IF RLe(deltaX, RNeg(SWIPE_THRESHOLD)) THEN <<"prev">>
                  ELSE <<>>
             ELSE <<>>
    ELSE <<>>

\* the swipe decision calling onGesture a second time after the timestamp update
SwipeGesture_Twice(lastX, currentX, timeSinceLastSwipe) ==
    IF lastX # Null
    THEN LET deltaX == RSub(currentX, lastX)
         IN  IF timeSinceLastSwipe > SWIPE_COOLDOWN
             THEN IF RGt(deltaX, SWIPE_THRESHOLD) THEN <<"next", "next">>
                  ELSE IF RLt(deltaX, RNeg(SWIPE_THRESHOLD)) THEN <<"prev", "prev">>
                  ELSE <<>>
             ELSE <<>>
    ELSE <<>>

\* the swipe decision of processResults (lines 218-231): the directions passed
\* to onGesture in this call
SwipeGesture(lastX, currentX, timeSinceLastSwipe) ==
    IF lastX # Null
    THEN LET deltaX == RSub(currentX, lastX)
         IN  IF timeSinceLastSwipe > SWIPE_COOLDOWN
             THEN IF RGt(deltaX, SWIPE_THRESHOLD) THEN <<"next">>
                  ELSE IF RLt(deltaX, RNeg(SWIPE_THRESHOLD)) THEN <<"prev">>
                  ELSE <<>>
             ELSE <<>>
    ELSE <<>>

\* processResults without its guard
Applies_Always(running) == TRUE

\* the guard of processResults (line 203): the call is applied at all
Applies(running) == running

\* processResults with another no-hand branch: idle(ss, lastX) is the record
\* and the lastX the branch leaves
processResultsWith(idle(_, _), results, running, t, ss, lastX, lastSwipe) ==
    LET out(s, lx, ls, g, e) ==
            [sharedState |-> s, lastX |-> lx, lastSwipeTime |-> ls,
             gestures |-> g, threw |-> e]
    IN
    IF ~running THEN out(ss, lastX, lastSwipe, <<>>, FALSE)
    ELSE IF results.hasList /\ Len(results.list) > 0
    THEN LET ss1 == [ss EXCEPT !.handDetected = TRUE]
             landmarks == results.list[1]
         IN  IF WRIST \notin DOMAIN landmarks
             THEN out(ss1, lastX, lastSwipe, <<>>, TRUE)
             ELSE
             LET currentX == RSub(Num(1), landmarks[WRIST].x)
                 g == IF lastX # Null /\ t - lastSwipe > SWIPE_COOLDOWN
                      THEN IF RGt(RSub(currentX, lastX), SWIPE_THRESHOLD) THEN <<"next">>
                           ELSE IF RLt(RSub(currentX, lastX), RNeg(SWIPE_THRESHOLD))
                                THEN <<"prev">>
                                ELSE <<>>
                      ELSE <<>>
                 ls1 == IF g # <<>> THEN t ELSE lastSwipe
             IN  IF THUMB_TIP \notin DOMAIN landmarks \/ INDEX_TIP \notin DOMAIN landmarks
                 THEN out(ss1, currentX, ls1, g, TRUE)
                 ELSE
                 LET distance == calculateDistance(landmarks[THUMB_TIP], landmarks[INDEX_TIP])
                     ss2 == [ss1 EXCEPT
                               !.pinchDistance = LerpTo(ss1.pinchDistance,
                                                        normalizePinchDistance(distance),
                                                        PINCH_LERP_ACTIVE),
                               !.handX = LerpTo(ss1.handX, currentX, HAND_X_LERP)]
                 IN  out(ss2, currentX, ls1, g, FALSE)
    ELSE out(idle(ss, lastX).sharedState, idle(ss, lastX).lastX, lastSwipe, <<>>, FALSE)

\* processResults whose no-hand branch does not clear handDetected
processResults_KeepsFlag(results, running, t, ss, lastX, lastSwipe) ==
    processResultsWith(
        LAMBDA s, lx :
            [sharedState |-> [s EXCEPT !.pinchDistance = LerpTo(@, Num(1), PINCH_LERP_INACTIVE)],
             lastX |-> Null],
        results, running, t, ss, lastX, lastSwipe)

\* processResults whose no-hand branch relaxes handY toward 0 as well
processResults_WritesHandY(results, running, t, ss, lastX, lastSwipe) ==
    processResultsWith(
        LAMBDA s, lx :
            [sharedState |-> [s EXCEPT !.handDetected = FALSE,
                                       !.pinchDistance = LerpTo(@, Num(1), PINCH_LERP_INACTIVE),
                                       !.handY = LerpTo(@, Num(0), PINCH_LERP_INACTIVE)],
             lastX |-> Null],
        results, running, t, ss, lastX, lastSwipe)

\* processResults whose no-hand branch relaxes handX toward 0.5 as well
processResults_RelaxesHandX(results, running, t, ss, lastX, lastSwipe) ==
    processResultsWith(
        LAMBDA s, lx :
            [sharedState |-> [s EXCEPT !.handDetected = FALSE,
                                       !.pinchDistance = LerpTo(@, Num(1), PINCH_LERP_INACTIVE),
                                       !.handX = LerpTo(@, R(1, 2), PINCH_LERP_INACTIVE)],
             lastX |-> Null],
        results, running, t, ss, lastX, lastSwipe)

\* processResults whose no-hand branch does not reset lastXRef
processResults_KeepsLastX(results, running, t, ss, lastX, lastSwipe) ==
    processResultsWith(
        LAMBDA s, lx :
            [sharedState |-> [s EXCEPT !.handDetected = FALSE,
                                       !.pinchDistance = LerpTo(@, Num(1), PINCH_LERP_INACTIVE)],
             lastX |-> lx],
        results, running, t, ss, lastX, lastSwipe)

\* processResults(results, isRunning) called at time t on the state (ss, lastX,
\* lastSwipe): the state it leaves, the directions it passed to onGesture and
\* whether it ended in a TypeError (reading .x of an undefined landmark)
processResults(results, running, t, ss, lastX, lastSwipe) ==
    LET out(s, lx, ls, g, e) ==
            [sharedState |-> s, lastX |-> lx, lastSwipeTime |-> ls,
             gestures |-> g, threw |-> e]
    IN
    IF ~Applies(running) THEN out(ss, lastX, lastSwipe, <<>>, FALSE)
    ELSE IF results.hasList /\ Len(results.list) > 0
    THEN LET ss1 == [ss EXCEPT !.handDetected = TRUE]
             landmarks == results.list[1]
         IN  IF WRIST \notin DOMAIN landmarks
             THEN out(ss1, lastX, lastSwipe, <<>>, TRUE)
             ELSE
             LET wrist == landmarks[WRIST]
                 currentX == RSub(Num(1), wrist.x)
                 g == SwipeGesture(lastX, currentX, t - lastSwipe)
                 ls1 == IF g # <<>> THEN t ELSE lastSwipe
             IN  IF THUMB_TIP \notin DOMAIN landmarks \/ INDEX_TIP \notin DOMAIN landmarks
                 THEN out(ss1, currentX, ls1, g, TRUE)
                 ELSE
                 LET distance == calculateDistance(landmarks[THUMB_TIP], landmarks[INDEX_TIP])
                     normalizedDistance == normalizePinchDistance(distance)
                     ss2 == [ss1 EXCEPT
                               !.pinchDistance = LerpTo(ss1.pinchDistance, normalizedDistance,
                                                        PINCH_LERP_ACTIVE),
                               !.handX = LerpTo(ss1.handX, currentX, HAND_X_LERP)]
                 IN  out(ss2, currentX, ls1, g, FALSE)
    ELSE out([ss EXCEPT !.handDetected = FALSE,
                        !.pinchDistance = LerpTo(ss.pinchDistance, Num(1), PINCH_LERP_INACTIVE)],
             Null, lastSwipe, <<>>, FALSE)

-----------------------------------------------------------------------------
(* State                                                                   *)

VARIABLES
    \* lib/sharedState.ts and the refs of HandController
    sharedState,        \* the shared signal record
    lastXRef,           \* lastXRef.current: a number or Null
    lastSwipeTimeRef,   \* lastSwipeTimeRef.current, ms
    requestRef,         \* requestRef.current: the effect instance whose animation
                        \* frame request it holds, 0 for null
    \* one entry per effect instance (one run of the useEffect body)
    isRunning,          \* isRunning.current of the instance
    hands,              \* its `hands` variable: "null", "open" or "closed"
    initPc,             \* where its init() is
    scriptPromise,      \* the promise loadScript returned to it
    detectPc,           \* where its detectFrame loop is
    closeTimer,         \* its setTimeout(close, 100) is pending
    stream,             \* the MediaStream it got: "none", "live" or "stopped"
    \* the component and the page
    effects,            \* effect instances started so far
    unmounted,          \* the component is unmounted
    scriptEl,           \* the hands.js script element: "absent", "loading",
                        \* "loaded" or "error"
    scriptAppends,      \* how often a script element was appended
    srcObject,          \* videoElement.srcObject: the instance whose stream it is, 0 for null
    \* the environment and what was observed
    clock,              \* Date.now()
    gestures,           \* the onGesture calls so far: <<[dir, at]>>
    onErrors,           \* the onError calls so far, per instance: [init, send]
    sends,              \* hands.send calls so far
    calls,              \* processResults calls so far
    last,               \* the last processResults call: its input, the state before it, its outcome
    run,                \* the samples since lastXRef was last null: <<[x, at, ev, elig]>>
    \* ParticleSystem.tsx
    device,             \* the tier of the window size: "mobile", "tablet" or "desktop"
    activeShape,        \* the activeShape state of ParticlePage, the prop of ParticleSystem
    shapeLog,           \* the setActiveShape calls so far: <<[ev, from, to]>>
    currentPositions,   \* the position buffer, mutated in place by the frame loop
    targetPositions,    \* the memoized target buffer
    colorArray,         \* the color buffer
    rotationY,          \* pointsRef.current.rotation.y
    elapsedTime,        \* state.clock.elapsedTime, seconds
    noiseAmplitude,     \* the noise amplitude the frame loop runs with
    frames,             \* frame callbacks so far
    lastFrame,          \* the last frame callback: its inputs, the buffer before it
                        \* and the buffer before the first frame
    generated,          \* the last generatePositions call: the implementation, its
                        \* arguments and the buffer it returned
    regenerations,      \* how often the targetPositions memo was recomputed since mount
    resizes,            \* the setWindowSize calls so far
    \* ui/Header.tsx
    headerHandDetected  \* the handDetected state of Header

gestureVars == <<sharedState, lastXRef, lastSwipeTimeRef, gestures>>

historyVars == <<calls, last, run>>

particleVars ==
    <<device, activeShape, shapeLog, currentPositions, targetPositions, colorArray, rotationY,
      elapsedTime, noiseAmplitude, frames, lastFrame, generated, regenerations, resizes,
      headerHandDetected>>

controllerVars ==
    <<requestRef, isRunning, hands, initPc, scriptPromise, detectPc, closeTimer, stream,
      effects, unmounted, scriptEl, scriptAppends, srcObject, onErrors, sends>>

-----------------------------------------------------------------------------
(* lib/sharedState.ts                                                      *)

DefaultSharedState ==
    [handDetected |-> FALSE, pinchDistance |-> Num(1), handX |-> R(1, 2), handY |-> R(1, 2)]

\* resetSharedState without its handX line
resetSharedState_KeepsHandX(ss) ==
    [ss EXCEPT !.handDetected = FALSE, !.pinchDistance = Num(1), !.handY = R(1, 2)]

resetSharedState(ss) ==
    [ss EXCEPT !.handDetected = FALSE, !.pinchDistance = Num(1),
               !.handX = R(1, 2), !.handY = R(1, 2)]

-----------------------------------------------------------------------------
(* One processResults call                                                 *)

\* the input names a hand whose landmark 0, 4 or 8 is missing or has a NaN coordinate
Malformed(results) ==
    /\ results.hasList
    /\ Len(results.list) > 0
    /\ LET lm == results.list[1]
       IN  \/ \E i \in {WRIST, THUMB_TIP, INDEX_TIP} : i \notin DOMAIN lm
           \/ IsNaN(lm[WRIST].x)
           \/ \E i \in {THUMB_TIP, INDEX_TIP} : IsNaN(lm[i].x) \/ IsNaN(lm[i].y)

NoHand(results) == ~results.hasList \/ Len(results.list) = 0

Kind(results) ==
    IF NoHand(results) THEN "nohand" ELSE IF Malformed(results) THEN "malformed" ELSE "hand"

\* processResults(results, running) is called dt ms after the previous call
GestureStep(results, running, dt) ==
    /\ calls < MaxCalls
    /\ \E o \in {processResults(results, running, clock + dt, sharedState, lastXRef,
                                lastSwipeTimeRef)} :
           /\ clock' = clock + dt
           /\ sharedState' = o.sharedState
           /\ lastXRef' = o.lastX
           /\ lastSwipeTimeRef' = o.lastSwipeTime
           /\ gestures' = gestures \o [k \in 1..Len(o.gestures) |->
                                          [dir |-> o.gestures[k], at |-> clock + dt]]
           /\ calls' = calls + 1
           /\ last' = [kind |-> Kind(results), running |-> running, at |-> clock + dt,
                       threw |-> o.threw, emitted |-> o.gestures, results |-> results,
                       pre |-> [sharedState |-> sharedState, lastX |-> lastXRef,
                                lastSwipeTime |-> lastSwipeTimeRef]]
           /\ run' = IF ~running THEN run
                     ELSE IF NoHand(results) THEN <<>>
                     ELSE IF WRIST \in DOMAIN results.list[1]
                          THEN Append(run, [x |-> o.lastX, at |-> clock + dt, ev |-> o.gestures,
                                            elig |-> clock + dt - lastSwipeTimeRef > SWIPE_COOLDOWN])
                          ELSE run

-----------------------------------------------------------------------------
(* HandController.tsx: the effect (lines 263-370)                          *)

\* detectFrame whose scheduling of the next frame is inside the readyState test:
\* a tick on which the video is not ready ends the loop
detectFrame_SkipsIdleTick(i, ready) ==
    IF ~isRunning[i] \/ ~(ready /\ sends < MaxSends)
    THEN /\ detectPc' = [detectPc EXCEPT ![i] = "off"]
         /\ UNCHANGED <<requestRef, sends>>
    ELSE /\ detectPc' = [detectPc EXCEPT ![i] = "sending"]
         /\ sends' = sends + 1
         /\ UNCHANGED requestRef

\* detectFrame(hands, video, running) of instance i, entered with video.readyState >= 2
\* or not: the try block and the scheduling of the next frame (lines 279-298).
\* A send that is started settles in a later step.
detectFrame(i, ready) ==
    IF ~isRunning[i]
    THEN /\ detectPc' = [detectPc EXCEPT ![i] = "off"]
         /\ UNCHANGED <<requestRef, sends>>
    ELSE IF ready /\ sends < MaxSends
    THEN /\ detectPc' = [detectPc EXCEPT ![i] = "sending"]
         /\ sends' = sends + 1
         /\ UNCHANGED requestRef
    ELSE /\ detectPc' = [detectPc EXCEPT ![i] = "raf"]
         /\ requestRef' = i
         /\ UNCHANGED sends

\* the catch block of init (lines 332-337)
InitFails(i) ==
    /\ initPc' = [initPc EXCEPT ![i] = "failed"]
    /\ onErrors' = [onErrors EXCEPT ![i].init = @ + 1]

\* the effect body for a new instance j (lines 264-340): init() runs up to its
\* first await, inside loadScript (lines 98-117)
StartEffect(j, running) ==
    /\ effects' = j
    /\ isRunning' = [running EXCEPT ![j] = TRUE]
    /\ initPc' = [initPc EXCEPT ![j] = "loadScript"]
    /\ IF scriptEl # "absent"
       THEN /\ scriptPromise' = [scriptPromise EXCEPT ![j] = "resolved"]
            /\ UNCHANGED <<scriptEl, scriptAppends>>
       ELSE /\ scriptPromise' = [scriptPromise EXCEPT ![j] = "pending"]
            /\ scriptEl' = "loading"
            /\ scriptAppends' = scriptAppends + 1

\* the cleanup function of instance i (lines 343-369), but for isRunning
EffectCleanup(i) ==
    /\ detectPc' = IF requestRef # 0 /\ detectPc[requestRef] = "raf"
                   THEN [detectPc EXCEPT ![requestRef] = "off"]
                   ELSE detectPc
    /\ requestRef' = 0
    /\ stream' = IF srcObject # 0 THEN [stream EXCEPT ![srcObject] = "stopped"] ELSE stream
    /\ srcObject' = 0
    /\ closeTimer' = IF hands[i] # "null" THEN [closeTimer EXCEPT ![i] = TRUE] ELSE closeTimer

\* line 344
StopFlag(i) == [isRunning EXCEPT ![i] = FALSE]

\* the component mounts: the effect runs for the first time
Mount ==
    /\ effects = 0
    /\ ~unmounted
    /\ StartEffect(1, isRunning)
    /\ UNCHANGED <<particleVars, gestureVars, clock, calls, last, run, requestRef, hands, detectPc,
                   closeTimer, stream, unmounted, srcObject, onErrors, sends>>

\* a dependency of the effect changed: the cleanup of the current instance, then
\* the effect body again, in one commit
Rerun ==
    /\ effects >= 1
    /\ effects < MaxEffects
    /\ ~unmounted
    /\ EffectCleanup(effects)
    /\ StartEffect(effects + 1, StopFlag(effects))
    /\ UNCHANGED <<particleVars, gestureVars, clock, calls, last, run, hands, unmounted, onErrors, sends>>

\* the component unmounts: the cleanup of the current instance
Unmount ==
    /\ effects >= 1
    /\ ~unmounted
    /\ EffectCleanup(effects)
    /\ isRunning' = StopFlag(effects)
    /\ unmounted' = TRUE
    /\ UNCHANGED <<particleVars, gestureVars, clock, calls, last, run, hands, initPc, scriptPromise,
                   effects, scriptEl, scriptAppends, onErrors, sends>>

\* script.onload (line 113)
ScriptLoad ==
    /\ scriptEl = "loading"
    /\ scriptEl' = "loaded"
    /\ scriptPromise' = [i \in Instances |->
                            IF scriptPromise[i] = "pending" THEN "resolved" ELSE scriptPromise[i]]
    /\ UNCHANGED <<particleVars, gestureVars, clock, calls, last, run, requestRef, isRunning, hands, initPc,
                   detectPc, closeTimer, stream, effects, unmounted, scriptAppends, srcObject,
                   onErrors, sends>>

\* script.onerror (line 114)
ScriptError ==
    /\ scriptEl = "loading"
    /\ scriptEl' = "error"
    /\ scriptPromise' = [i \in Instances |->
                            IF scriptPromise[i] = "pending" THEN "rejected" ELSE scriptPromise[i]]
    /\ UNCHANGED <<particleVars, gestureVars, clock, calls, last, run, requestRef, isRunning, hands, initPc,
                   detectPc, closeTimer, stream, effects, unmounted, scriptAppends, srcObject,
                   onErrors, sends>>

\* init resumes after `await loadScript` (line 304) and enters setupCamera
\* (lines 169-182), where getUserMedia exists or not
InitAfterScript(i) ==
    /\ initPc[i] = "loadScript"
    /\ scriptPromise[i] \in {"resolved", "rejected"}
    /\ \E api \in BOOLEAN :
          IF scriptPromise[i] = "resolved" /\ api
          THEN /\ initPc' = [initPc EXCEPT ![i] = "getUserMedia"]
               /\ UNCHANGED onErrors
          ELSE InitFails(i)
    /\ UNCHANGED <<particleVars, gestureVars, clock, calls, last, run, requestRef, isRunning, hands,
                   scriptPromise, detectPc, closeTimer, stream, effects, unmounted, scriptEl,
                   scriptAppends, srcObject, sends>>

\* getUserMedia settles (line 175); on success the stream becomes the video's
\* srcObject and the instance waits for loadedmetadata (lines 184-192)
GetUserMediaSettles(i) ==
    /\ initPc[i] = "getUserMedia"
    /\ \E granted \in BOOLEAN :
          IF granted
          THEN /\ initPc' = [initPc EXCEPT ![i] = "loadedmetadata"]
               /\ stream' = [stream EXCEPT ![i] = "live"]
               /\ srcObject' = i
               /\ UNCHANGED onErrors
          ELSE /\ InitFails(i)
               /\ UNCHANGED <<stream, srcObject>>
    /\ UNCHANGED <<particleVars, gestureVars, clock, calls, last, run, requestRef, isRunning, hands,
                   scriptPromise, detectPc, closeTimer, effects, unmounted, scriptEl,
                   scriptAppends, sends>>

\* loadedmetadata fires for the stream of instance i, setupCamera returns and
\* init runs to its end (lines 310-331): the Hands constructor (a TypeError
\* when the script did not define window.Hands), onResults, the first detectFrame
InitAfterMetadata(i) ==
    /\ initPc[i] = "loadedmetadata"
    /\ srcObject = i
    /\ \E constructed \in BOOLEAN, ready \in BOOLEAN :
          IF scriptEl = "loaded" /\ constructed
          THEN /\ hands' = [hands EXCEPT ![i] = "open"]
               /\ initPc' = [initPc EXCEPT ![i] = "done"]
               /\ detectFrame(i, ready)
               /\ UNCHANGED onErrors
          ELSE /\ InitFails(i)
               /\ UNCHANGED <<hands, detectPc, requestRef, sends>>
    /\ UNCHANGED <<particleVars, gestureVars, clock, calls, last, run, isRunning, scriptPromise, closeTimer,
                   stream, effects, unmounted, scriptEl, scriptAppends, srcObject>>

\* the callback given to hands.onResults (lines 324-326), called for the send in
\* flight; the send then resolves, or rejects when the callback threw
ResultsCallback(i, results, dt) ==
    /\ detectPc[i] = "sending"
    /\ GestureStep(results, isRunning[i], dt)
    /\ \E settles \in {"resolved", "rejected"} :
          /\ settles = "rejected" => last'.threw
          /\ detectPc' = [detectPc EXCEPT ![i] = settles]
    /\ UNCHANGED <<particleVars, requestRef, isRunning, hands, initPc, scriptPromise,
                   closeTimer, stream, effects, unmounted, scriptEl, scriptAppends, srcObject,
                   onErrors, sends>>

\* hands.send rejects without a result (line 284)
SendFails(i) ==
    /\ detectPc[i] = "sending"
    /\ detectPc' = [detectPc EXCEPT ![i] = "rejected"]
    /\ UNCHANGED <<particleVars, gestureVars, clock, calls, last, run, requestRef, isRunning, hands, initPc,
                   scriptPromise, closeTimer, stream, effects, unmounted, scriptEl,
                   scriptAppends, srcObject, onErrors, sends>>

\* detectFrame with the scheduling of the next frame inside the try block: a
\* rejected send is reported and ends the loop
AfterSend_StopsOnError(i) ==
    /\ detectPc[i] \in {"resolved", "rejected"}
    /\ onErrors' = IF detectPc[i] = "rejected" /\ isRunning[i]
                   THEN [onErrors EXCEPT ![i].send = @ + 1]
                   ELSE onErrors
    /\ IF isRunning[i] /\ detectPc[i] = "resolved"
       THEN /\ detectPc' = [detectPc EXCEPT ![i] = "raf"]
            /\ requestRef' = i
       ELSE /\ detectPc' = [detectPc EXCEPT ![i] = "off"]
            /\ UNCHANGED requestRef
    /\ UNCHANGED <<particleVars, gestureVars, clock, calls, last, run, isRunning, hands, initPc,
                   scriptPromise, closeTimer, stream, effects, unmounted, scriptEl,
                   scriptAppends, srcObject, sends>>

\* detectFrame resumes after `await send`: the catch block and the scheduling
\* of the next frame (lines 286-298)
AfterSend(i) ==
    /\ detectPc[i] \in {"resolved", "rejected"}
    /\ onErrors' = IF detectPc[i] = "rejected" /\ isRunning[i]
                   THEN [onErrors EXCEPT ![i].send = @ + 1]
                   ELSE onErrors
    /\ IF isRunning[i]
       THEN /\ detectPc' = [detectPc EXCEPT ![i] = "raf"]
            /\ requestRef' = i
       ELSE /\ detectPc' = [detectPc EXCEPT ![i] = "off"]
            /\ UNCHANGED requestRef
    /\ UNCHANGED <<particleVars, gestureVars, clock, calls, last, run, isRunning, hands, initPc,
                   scriptPromise, closeTimer, stream, effects, unmounted, scriptEl,
                   scriptAppends, srcObject, sends>>

\* the animation frame requested by instance i fires (lines 295-297)
AnimationFrame(i) ==
    /\ detectPc[i] = "raf"
    /\ \E ready \in BOOLEAN : detectFrame(i, ready)
    /\ UNCHANGED <<particleVars, gestureVars, clock, calls, last, run, isRunning, hands, initPc,
                   scriptPromise, closeTimer, stream, effects, unmounted, scriptEl,
                   scriptAppends, srcObject, onErrors>>

\* the timeout of the cleanup fires (lines 361-367)
CloseTimer(i) ==
    /\ closeTimer[i]
    /\ closeTimer' = [closeTimer EXCEPT ![i] = FALSE]
    /\ hands' = [hands EXCEPT ![i] = "closed"]
    /\ UNCHANGED <<particleVars, gestureVars, clock, calls, last, run, requestRef, isRunning, initPc,
                   scriptPromise, detectPc, stream, effects, unmounted, scriptEl,
                   scriptAppends, srcObject, onErrors, sends>>

-----------------------------------------------------------------------------
(* Constants of the particle system (lib/constants.ts)                     *)

LERP_SPEED_MOBILE == 3
LERP_SPEED_DESKTOP == 4
ROTATION_SPEED_MOBILE == R(5, 10000)
ROTATION_SPEED_DESKTOP == R(1, 1000)
NOISE_AMPLITUDE == R(5, 100)

ACTIVE_SATURATION == R(8, 10)
ACTIVE_LIGHTNESS == R(6, 10)
INACTIVE_HUE == R(6, 10)
INACTIVE_SATURATION == R(1, 10)
INACTIVE_LIGHTNESS == R(2, 10)
HUE_SHIFT_RANGE == R(2, 10)

SHAPE_LIST == <<"heart", "sphere", "flower", "spiral">>

\* DEFAULT_CONFIGS[device].particleCount, scaled from 4000 / 6000 / 8000 down to
\* counts for which the spiral has rational coordinates
ParticleCount(d) == IF d = "mobile" THEN 1 ELSE 2

IsMobile(d) == d = "mobile"

-----------------------------------------------------------------------------
(* lib/shapeGenerators.ts                                                  *)

\* Points of each formation at parameters (the values of Math.random()) where
\* the sines and cosines are rational.
\* sphere, r = 6: phi = pi/2 with theta = 0, and sin phi = sin theta = 3/5 with
\* cos phi = cos theta = 4/5
SpherePoints == {<<Num(6), Num(0), Num(0)>>, <<R(72, 25), R(54, 25), R(24, 5)>>}

\* heart: t = p = pi/2
HeartPoints == {<<R(24, 5), R(11, 5), R(6, 5)>>}

\* flower: sin u = 3/5, cos u = 4/5, v = pi/2
FlowerPoints == {<<R(96, 25), R(72, 25), Num(0)>>}

\* spiral, particle i of count: t = (i / count) * 20 * pi is a multiple of pi
\* for the counts of ParticleCount, so that cos t = 1 or -1 and sin t = 0
SpiralPoint(i, count) ==
    LET turns == (20 * i) \div count
        cos == IF turns % 2 = 0 THEN 1 ELSE -1
        r == R(8 * i, count)
    IN  <<RMul(r, Num(cos)), RMul(RSub(R(i, count), R(1, 2)), Num(10)), Num(0)>>

PointsOf(type, i, count) ==
    IF type = "heart" THEN HeartPoints
    ELSE IF type = "sphere" THEN SpherePoints
    ELSE IF type = "flower" THEN FlowerPoints
    ELSE IF type = "spiral" THEN {SpiralPoint(i, count)}
    ELSE SpherePoints

\* new Float32Array(count * 3) with the triple of every particle written by the
\* loop: the buffers for each outcome of the random draws; entry 3i+k (from 1)
\* is coordinate k of particle i
Filled(points(_, _, _), type, count) ==
    LET draws == {c \in [0..(count - 1) ->
                            UNION {points(type, i, count) : i \in 0..(count - 1)}] :
                     \A i \in 0..(count - 1) : c[i] \in points(type, i, count)}
    IN  {[k \in 1..(3 * count) |-> c[(k - 1) \div 3][((k - 1) % 3) + 1]] : c \in draws}

\* generatePositions whose assignment after the switch is skipped for "spiral"
\* as it is for "sphere": the spiral buffer stays as allocated
generatePositions_SkipsSpiral(type, count) ==
    IF type = "spiral" THEN {[k \in 1..(3 * count) |-> Num(0)]}
    ELSE Filled(PointsOf, type, count)

\* generatePositions(type, count): the buffers a call can return, one for each
\* outcome of its random draws; entry 3i+k (from 1) is coordinate k of particle i
generatePositions(type, count) ==
    LET draws == {c \in [0..(count - 1) -> UNION {PointsOf(type, i, count) : i \in 0..(count - 1)}] :
                     \A i \in 0..(count - 1) : c[i] \in PointsOf(type, i, count)}
    IN  {[k \in 1..(3 * count) |-> c[(k - 1) \div 3][((k - 1) % 3) + 1]] : c \in draws}

\* the if / else-if chain of the single-file pages: x = y = z = 0 is kept for a
\* type that none of the four comparisons matches
PointsOfChain(type, i, count) ==
    IF type = "heart" THEN HeartPoints
    ELSE IF type = "sphere" THEN SpherePoints
    ELSE IF type = "flower" THEN FlowerPoints
    ELSE IF type = "spiral" THEN {SpiralPoint(i, count)}
    ELSE {<<Num(0), Num(0), Num(0)>>}

\* generatePositions of the single-file page
generatePositionsPage(type, count) == Filled(PointsOfChain, type, count)

\* generatePositions of the single-file page kept in ParticleSystem.tsx
generatePositionsLegacy(type, count) == Filled(PointsOfChain, type, count)

\* the generatePositions implementations of the repository
Implementations == {"lib", "page", "legacy"}

generatePositionsOf(impl, type, count) ==
    IF impl = "lib" THEN generatePositions(type, count)
    ELSE IF impl = "page" THEN generatePositionsPage(type, count)
    ELSE generatePositionsLegacy(type, count)

\* one call of generatePositions(type, count) of implementation impl
Generate(impl, type, count) ==
    /\ generated' \in {[impl |-> impl, type |-> type, count |-> count, positions |-> p] :
                         p \in generatePositionsOf(impl, type, count)}
    /\ UNCHANGED <<device, activeShape, shapeLog, currentPositions, targetPositions, colorArray,
                   rotationY, elapsedTime, noiseAmplitude, frames, lastFrame, regenerations,
                   resizes, headerHandDetected, gestureVars, clock, calls, last, run,
                   controllerVars>>

-----------------------------------------------------------------------------
(* ParticleSystem.tsx: the frame loop                                      *)

\* calculateExpansion without the explosive branch
calculateExpansion_Linear(pinchDistance) == RAdd(R(2, 10), RMul(pinchDistance, R(8, 10)))

\* calculateExpansion with the explosive branch taken from 0.95 on
calculateExpansion_Inclusive(pinchDistance) ==
    IF RLe(R(95, 100), pinchDistance)
    THEN RAdd(Num(1), RMul(RSub(pinchDistance, R(95, 100)), Num(5)))
    ELSE RAdd(R(2, 10), RMul(pinchDistance, R(8, 10)))

\* calculateExpansion with the explosive branch starting from the value of the
\* linear branch at 0.95
calculateExpansion_Continuous(pinchDistance) ==
    IF RGt(pinchDistance, R(95, 100))
    THEN RAdd(R(96, 100), RMul(RSub(pinchDistance, R(95, 100)), Num(5)))
    ELSE RAdd(R(2, 10), RMul(pinchDistance, R(8, 10)))

calculateExpansion(pinchDistance) ==
    IF RGt(pinchDistance, R(95, 100))
    THEN RAdd(Num(1), RMul(RSub(pinchDistance, R(95, 100)), Num(5)))
    ELSE RAdd(R(2, 10), RMul(pinchDistance, R(8, 10)))

\* the largest integer <= n/d
FloorDiv(n, d) == n \div d

\* JavaScript's x % 1: the fraction of x, with the sign of x
JsMod1(x) ==
    IF IsNaN(x) THEN NaN
    ELSE IF x[1] >= 0 THEN RSub(x, Num(FloorDiv(x[1], x[2])))
    ELSE RNeg(RSub(RNeg(x), Num(FloorDiv(-x[1], x[2]))))

\* three.js hue2rgb
Hue2Rgb(p, q, t0) ==
    LET t1 == IF RLt(t0, Num(0)) THEN RAdd(t0, Num(1)) ELSE t0
        t == IF RGt(t1, Num(1)) THEN RSub(t1, Num(1)) ELSE t1
    IN  IF RLt(t, R(1, 6)) THEN RAdd(p, RMul(RMul(RSub(q, p), Num(6)), t))
        ELSE IF RLt(t, R(1, 2)) THEN q
        ELSE IF RLt(t, R(2, 3)) THEN RAdd(p, RMul(RMul(RSub(q, p), Num(6)), RSub(R(2, 3), t)))
        ELSE p

\* three.js Color.setHSL(h, s, l): the r, g, b it leaves (h is taken modulo 1
\* into [0, 1), s and l are within [0, 1] at every call of the frame loop)
SetHSL(h0, s, l) ==
    LET h == IF IsNaN(h0) THEN NaN ELSE RSub(h0, Num(FloorDiv(h0[1], h0[2])))
        p == IF RLe(l, R(1, 2)) THEN RMul(l, RAdd(Num(1), s))
             ELSE RSub(RAdd(l, s), RMul(l, s))
        q == RSub(RMul(Num(2), l), p)
    IN  IF IsNaN(h) THEN <<NaN, NaN, NaN>>
        ELSE <<Hue2Rgb(q, p, RAdd(h, R(1, 3))), Hue2Rgb(q, p, h), Hue2Rgb(q, p, RSub(h, R(1, 3)))>>

\* the hue given to setHSL for particle i when a hand is detected (lines 68, 194-195)
ActiveHue(baseHue, i, count) == JsMod1(RAdd(baseHue, RMul(R(i, count), HUE_SHIFT_RANGE)))

calculateParticleColor(handDetected, baseHue, hueShiftIndex, count) ==
    IF handDetected
    THEN SetHSL(ActiveHue(baseHue, hueShiftIndex, count), ACTIVE_SATURATION, ACTIVE_LIGHTNESS)
    ELSE SetHSL(INACTIVE_HUE, INACTIVE_SATURATION, INACTIVE_LIGHTNESS)

\* reading a typed array: undefined (NaN in arithmetic) outside the buffer
At(buf, k) == IF k \in DOMAIN buf THEN buf[k] ELSE NaN

\* the factor every target coordinate of a frame is multiplied by (line 170)
FrameExpansion(pinchDistance) == calculateExpansion(pinchDistance)

\* lerpSpeed of a frame (lines 162-164)
LerpSpeed(d, delta) ==
    IF IsMobile(d) THEN RMul(Num(LERP_SPEED_MOBILE), delta)
    ELSE RMul(Num(LERP_SPEED_DESKTOP), delta)

\* the target of buffer entry k in a frame (lines 178-180)
ExpandedTarget(targets, k, expansion) == RMul(At(targets, k), expansion)

\* buffer entry k after the frame (lines 189-191); noise is that of its particle
SteppedPosition(positions, targets, k, expansion, noise, lerpSpeed) ==
    RAdd(At(positions, k),
         RMul(RAdd(RSub(ExpandedTarget(targets, k, expansion), At(positions, k)), noise),
              lerpSpeed))

\* the useFrame callback (lines 144-212) with frame time delta; sines[i + 1] is
\* the value of Math.sin(elapsedTime * NOISE_FREQUENCY + i) for particle i
FrameStep(delta, sines) ==
    /\ frames < MaxFrames
    /\ \E count \in {ParticleCount(device)},
          lerpSpeed \in {LerpSpeed(device, delta)},
          expansion \in {FrameExpansion(sharedState.pinchDistance)} :
       \E noise \in {[i \in 1..count |-> RMul(Num(sines[i]), noiseAmplitude)]},
          color \in {[i \in 1..count |->
                        calculateParticleColor(sharedState.handDetected, sharedState.handX,
                                               i - 1, count)]} :
           /\ currentPositions' =
                 [k \in DOMAIN currentPositions |->
                     IF ((k - 1) \div 3) + 1 <= count
                     THEN SteppedPosition(currentPositions, targetPositions, k, expansion,
                                          noise[((k - 1) \div 3) + 1], lerpSpeed)
                     ELSE currentPositions[k]]
           /\ colorArray' =
                 [k \in DOMAIN colorArray |->
                     IF ((k - 1) \div 3) + 1 <= count
                     THEN color[((k - 1) \div 3) + 1][((k - 1) % 3) + 1]
                     ELSE colorArray[k]]
           /\ rotationY' = RAdd(rotationY, IF IsMobile(device) THEN ROTATION_SPEED_MOBILE
                                           ELSE ROTATION_SPEED_DESKTOP)
           /\ elapsedTime' = RAdd(elapsedTime, delta)
           /\ frames' = frames + 1
           /\ lastFrame' = [delta |-> delta, lerpSpeed |-> lerpSpeed, expansion |-> expansion,
                            pinchDistance |-> sharedState.pinchDistance, noise |-> noise,
                            pre |-> currentPositions, targets |-> targetPositions,
                            start |-> IF frames = 0 THEN currentPositions ELSE lastFrame.start,
                            count |-> count, colors |-> colorArray,
                            handDetected |-> sharedState.handDetected,
                            handX |-> sharedState.handX]
    /\ UNCHANGED <<device, activeShape, shapeLog, targetPositions, noiseAmplitude, generated,
                   regenerations, resizes, headerHandDetected, gestureVars, clock, calls, last, run,
                   controllerVars>>

-----------------------------------------------------------------------------
(* ParticlePage.tsx: shape navigation                                      *)

\* SHAPE_LIST.indexOf(shape): from 0, -1 when absent
IndexOf(shape) ==
    IF \E k \in DOMAIN SHAPE_LIST : SHAPE_LIST[k] = shape
    THEN (CHOOSE k \in DOMAIN SHAPE_LIST : SHAPE_LIST[k] = shape) - 1
    ELSE -1

\* JavaScript's a % b for b > 0: the remainder has the sign of a
JsRem(a, b) == IF a >= 0 THEN a % b ELSE -((-a) % b)

\* SHAPE_LIST[i], i from 0: undefined outside the list
ShapeAt(i) == IF i + 1 \in DOMAIN SHAPE_LIST THEN SHAPE_LIST[i + 1] ELSE "undefined"

\* getNextShape without "+ length" in the prev branch
getNextShape_NoWrap(current, direction) ==
    LET currentIndex == IndexOf(current)
        length == Len(SHAPE_LIST)
    IN  ShapeAt(IF direction = "next" THEN JsRem(currentIndex + 1, length)
                ELSE JsRem(currentIndex - 1, length))

getNextShape(current, direction) ==
    LET currentIndex == IndexOf(current)
        length == Len(SHAPE_LIST)
        newIndex == IF direction = "next" THEN JsRem(currentIndex + 1, length)
                    ELSE JsRem(currentIndex - 1 + length, length)
    IN  ShapeAt(newIndex)

\* setActiveShape with a targetPositions memo that has no dependency list: the
\* target buffer is generated again by every render
SetActiveShape_NoMemo(shape, ev) ==
    /\ Len(shapeLog) < MaxNav
    /\ activeShape' = shape
    /\ targetPositions' \in generatePositions(shape, ParticleCount(device))
    /\ regenerations' = regenerations + 1
    /\ shapeLog' = Append(shapeLog, [ev |-> ev, from |-> activeShape, to |-> shape])
    /\ UNCHANGED <<device, currentPositions, colorArray, rotationY, elapsedTime, noiseAmplitude,
                   frames, lastFrame, generated, resizes, headerHandDetected, gestureVars, clock,
                   calls, last, run, controllerVars>>

\* setActiveShape(shape) and the render it causes: ParticleSystem recomputes
\* its memoized target buffer when the prop changed (ParticleSystem.tsx 126-129)
SetActiveShape(shape, ev) ==
    /\ Len(shapeLog) < MaxNav
    /\ activeShape' = shape
    /\ targetPositions' \in IF shape = activeShape THEN {targetPositions}
                            ELSE generatePositions(shape, ParticleCount(device))
    /\ regenerations' = IF shape = activeShape THEN regenerations ELSE regenerations + 1
    /\ shapeLog' = Append(shapeLog, [ev |-> ev, from |-> activeShape, to |-> shape])
    /\ UNCHANGED <<device, currentPositions, colorArray, rotationY, elapsedTime, noiseAmplitude,
                   frames, lastFrame, generated, resizes, headerHandDetected, gestureVars, clock,
                   calls, last, run, controllerVars>>

\* the resize callback of useWindowSize (setWindowSize) and the render it causes,
\* the window now being of tier d: config.particleCount follows the tier, the
\* target and color memos are recomputed when it changed (ParticleSystem.tsx
\* 126-135), and the useState initializer of currentPositions does not run again
\* (lines 121-123)
Resize(d) ==
    /\ resizes < MaxResizes
    /\ resizes' = resizes + 1
    /\ device' = d
    /\ IF ParticleCount(d) = ParticleCount(device)
       THEN UNCHANGED <<targetPositions, colorArray, regenerations>>
       ELSE /\ targetPositions' \in generatePositions(activeShape, ParticleCount(d))
            /\ colorArray' = [k \in 1..(3 * ParticleCount(d)) |-> Num(0)]
            /\ regenerations' = regenerations + 1
    /\ UNCHANGED <<activeShape, shapeLog, currentPositions, rotationY, elapsedTime,
                   noiseAmplitude, frames, lastFrame, generated, headerHandDetected, gestureVars,
                   clock, calls, last, run, controllerVars>>

\* the status poll with the comparison turned round: the record is made to
\* agree with the state of the header
StatusPoll_WritesBack ==
    /\ sharedState' = [sharedState EXCEPT !.handDetected = headerHandDetected]
    /\ UNCHANGED <<lastXRef, lastSwipeTimeRef, gestures, clock, calls, last, run,
                   controllerVars, particleVars>>

\* the interval callback of Header (every STATUS_UPDATE_INTERVAL ms): the state
\* of the header follows sharedState.handDetected
StatusPoll ==
    /\ headerHandDetected' = sharedState.handDetected
    /\ UNCHANGED <<device, activeShape, shapeLog, currentPositions, targetPositions, colorArray,
                   rotationY, elapsedTime, noiseAmplitude, frames, lastFrame, generated,
                   regenerations, resizes, gestureVars, clock, calls, last, run, controllerVars>>

\* handleGesture(direction), the onGesture prop of HandController
handleGesture(direction) == SetActiveShape(getNextShape(activeShape, direction), direction)

\* handleShapeChange(shape), the onShapeChange prop of ShapeDock
handleShapeChange(shape) == SetActiveShape(shape, "select")

-----------------------------------------------------------------------------
(* Initial states                                                          *)

vars ==
    <<sharedState, lastXRef, lastSwipeTimeRef, requestRef, isRunning, hands, initPc,
      scriptPromise, detectPc, closeTimer, stream, effects, unmounted, scriptEl,
      scriptAppends, srcObject, clock, gestures, onErrors, sends, calls, last, run, device,
      activeShape, shapeLog, currentPositions, targetPositions, colorArray, rotationY,
      elapsedTime, noiseAmplitude, frames, lastFrame, generated, regenerations, resizes,
      headerHandDetected>>

NoCall ==
    [kind |-> "none", running |-> FALSE, at |-> 0, threw |-> FALSE, emitted |-> <<>>,
     results |-> NoList,
     pre |-> [sharedState |-> DefaultSharedState, lastX |-> Null, lastSwipeTime |-> 0]]

\* the refs hold their initial values (lines 155-158)
InitRefs ==
    /\ lastXRef = Null
    /\ lastSwipeTimeRef = 0
    /\ requestRef = 0
    /\ clock = StartTime
    /\ gestures = <<>>
    /\ calls = 0
    /\ last = NoCall
    /\ run = <<>>

\* the module is loaded and the component rendered
InitSignals ==
    /\ sharedState = DefaultSharedState
    /\ InitRefs

NoFrame ==
    [delta |-> Num(0), lerpSpeed |-> Num(0), expansion |-> Num(0), pinchDistance |-> Num(0),
     noise |-> <<>>, pre |-> <<>>, targets |-> <<>>, start |-> <<>>, count |-> 0,
     colors |-> <<>>, handDetected |-> FALSE, handX |-> Num(0)]

\* no generatePositions call observed yet
NoBuffer == [impl |-> "none", type |-> "none", count |-> 0, positions |-> <<>>]

\* ParticleSystem mounted on device d with active shape `shape`: the position
\* buffer holds the initial shape (lines 121-123), the target buffer the active
\* one (lines 126-129), the color buffer zeros (lines 132-135)
ParticlesMounted(d, shape, amplitude) ==
    /\ device = d
    /\ activeShape = shape
    /\ shapeLog = <<>>
    /\ currentPositions \in generatePositions("sphere", ParticleCount(d))
    /\ targetPositions \in generatePositions(shape, ParticleCount(d))
    /\ colorArray = [k \in 1..(3 * ParticleCount(d)) |-> Num(0)]
    /\ rotationY = Num(0)
    /\ elapsedTime = Num(0)
    /\ noiseAmplitude = amplitude
    /\ frames = 0
    /\ lastFrame = NoFrame
    /\ generated = NoBuffer
    /\ regenerations = 0
    /\ resizes = 0
    /\ headerHandDetected = FALSE

\* the page as it mounts on a desktop window, for the specifications of the
\* controller: the sphere, every particle at the first sphere point
InitParticles ==
    /\ ParticlesMounted("desktop", "sphere", NOISE_AMPLITUDE)
    /\ \A k \in DOMAIN currentPositions :
          /\ currentPositions[k] = <<Num(6), Num(0), Num(0)>>[((k - 1) % 3) + 1]
          /\ targetPositions[k] = currentPositions[k]

\* before the effect has run
Init ==
    /\ InitSignals
    /\ InitParticles
    /\ isRunning = [i \in Instances |-> FALSE]
    /\ hands = [i \in Instances |-> "null"]
    /\ initPc = [i \in Instances |-> "idle"]
    /\ scriptPromise = [i \in Instances |-> "none"]
    /\ detectPc = [i \in Instances |-> "off"]
    /\ closeTimer = [i \in Instances |-> FALSE]
    /\ stream = [i \in Instances |-> "none"]
    /\ onErrors = [i \in Instances |-> [init |-> 0, send |-> 0]]
    /\ effects = 0
    /\ unmounted = FALSE
    /\ scriptEl = "absent"
    /\ scriptAppends = 0
    /\ srcObject = 0
    /\ sends = 0

\* the first effect instance has initialized and waits for its first result
\* (Mount, ScriptLoad, InitAfterScript, GetUserMediaSettles, InitAfterMetadata)
Tracking ==
    /\ isRunning = [i \in Instances |-> i = 1]
    /\ hands = [i \in Instances |-> IF i = 1 THEN "open" ELSE "null"]
    /\ initPc = [i \in Instances |-> IF i = 1 THEN "done" ELSE "idle"]
    /\ scriptPromise = [i \in Instances |-> IF i = 1 THEN "resolved" ELSE "none"]
    /\ detectPc = [i \in Instances |-> IF i = 1 THEN "sending" ELSE "off"]
    /\ closeTimer = [i \in Instances |-> FALSE]
    /\ stream = [i \in Instances |-> IF i = 1 THEN "live" ELSE "none"]
    /\ onErrors = [i \in Instances |-> [init |-> 0, send |-> 0]]
    /\ effects = 1
    /\ unmounted = FALSE
    /\ scriptEl = "loaded"
    /\ scriptAppends = 1
    /\ srcObject = 1
    /\ sends = 1

InitTracking == InitSignals /\ Tracking /\ InitParticles

-----------------------------------------------------------------------------
(* Inputs                                                                  *)

\* fingers 0.12 apart: normalized pinch 0.7
HalfOpen == Tips(R(12, 100), Num(0))

\* fingers together: normalized pinch clamped to 0
Pinched == Tips(Num(0), Num(0))

\* fingers 0.5 apart (0.3 and 0.4): normalized pinch clamped to 1.5
WideOpen == Tips(R(3, 10), R(4, 10))

\* wrist x of a hand moving inside the frame: inverted x 0.6, 0.55, 0.5, 0.4
SwipeWristXs == {R(4, 10), R(45, 100), R(1, 2), R(6, 10)}

SwipeInputs == {NoList} \cup {Results(<<FullHand(w, HalfOpen)>>) : w \in SwipeWristXs}

\* ms between two results
SwipeDelays == {400, 401}

\* wrist x of a hand whose inverted x moves by the swipe threshold and by twice
\* the threshold: inverted x 0.56, 0.5, 0.44
ThresholdWristXs == {R(44, 100), R(1, 2), R(56, 100)}

ThresholdInputs == {NoList} \cup {Results(<<FullHand(w, HalfOpen)>>) : w \in ThresholdWristXs}

\* wrist x inside and outside the camera frame
SignalWristXs == {Num(-1), R(1, 2), Num(2)}

WellFormedInputs ==
    {Results(<<FullHand(w, t)>>) : w \in SignalWristXs, t \in {Pinched, WideOpen}}

Centre == Pt(R(1, 2), R(1, 2))

\* hands with 0, 1 and 5 landmarks, and hands with a NaN coordinate
MalformedInputs ==
    { Results(<<Hand(0, Centre, Centre, Centre)>>),
      Results(<<Hand(1, Pt(R(3, 10), R(1, 2)), Centre, Centre)>>),
      Results(<<Hand(5, Pt(R(3, 10), R(1, 2)), Centre, Centre)>>),
      Results(<<FullHand(NaN, HalfOpen)>>),
      Results(<<Hand(21, Centre, Pt(NaN, R(1, 2)), Centre)>>) }

SignalInputs == {NoList, Results(<<>>)} \cup WellFormedInputs \cup MalformedInputs

\* finite coordinates only: no hand, and hands inside and outside the frame
RangeInputs == {NoList} \cup WellFormedInputs

SignalDelays == {500}

\* what the lifecycle is run with: no hand, a hand, a hand further right, a hand
\* without landmarks
LifecycleInputs ==
    {NoList, Results(<<FullHand(R(1, 2), HalfOpen)>>), Results(<<FullHand(R(4, 10), HalfOpen)>>),
     Results(<<Hand(0, Centre, Centre, Centre)>>)}

LifecycleDelays == {900}

\* values of sharedState.pinchDistance over its range [0, 1.5]
PinchValues == {Num(0), R(1, 2), R(95, 100), R(96, 100), Num(1), R(13, 10), R(3, 2)}

\* the shared record as the frame loop can find it
FrameSignals ==
    {[handDetected |-> FALSE, pinchDistance |-> p, handX |-> R(1, 2), handY |-> R(1, 2)] :
        p \in PinchValues}
    \cup
    {[handDetected |-> TRUE, pinchDistance |-> Num(1), handX |-> R(3, 4), handY |-> R(1, 2)]}

\* frame times, seconds: lerpSpeed 1/2, 1 and 2 on a desktop
FrameDeltas == {R(1, 8), R(1, 4), R(1, 2)}

Devices == {"mobile", "desktop"}

\* values of Math.sin(elapsedTime * NOISE_FREQUENCY + i), i = 0 .. count - 1, in
\* a frame: all 1, and 1, -1, 1, ...
SineSamples(count) == {[i \in 1..count |-> 1], [i \in 1..count |-> IF i % 2 = 1 THEN 1 ELSE -1]}

\* NOISE_AMPLITUDE as configured, and forced to 0
NoiseAmplitudes == {NOISE_AMPLITUDE, Num(0)}

\* the page with the controller tracking and the record written by it
InitFrame ==
    /\ sharedState \in FrameSignals
    /\ InitRefs
    /\ Tracking
    /\ \E d \in Devices, shape \in {SHAPE_LIST[k] : k \in DOMAIN SHAPE_LIST},
          amplitude \in NoiseAmplitudes : ParticlesMounted(d, shape, amplitude)

-----------------------------------------------------------------------------
(* Specifications                                                          *)

\* a result arrives at the running controller
OnResults(results, dt) ==
    /\ GestureStep(results, isRunning[1], dt)
    /\ UNCHANGED <<controllerVars, particleVars>>

\* resetSharedState is called
ResetSharedState ==
    /\ sharedState' = resetSharedState(sharedState)
    /\ last' = [last EXCEPT !.kind = "reset", !.pre.sharedState = sharedState]
    /\ UNCHANGED <<lastXRef, lastSwipeTimeRef, gestures, clock, calls, run, controllerVars,
                   particleVars>>

NextSwipe == \E results \in SwipeInputs, dt \in SwipeDelays : OnResults(results, dt)

NextSignals == \E results \in SignalInputs, dt \in SignalDelays : OnResults(results, dt)

NextThreshold == \E results \in ThresholdInputs, dt \in SwipeDelays : OnResults(results, dt)

NextRange == \E results \in RangeInputs, dt \in SignalDelays : OnResults(results, dt)

NextChannel == NextSignals \/ ResetSharedState

\* the shapes ShapeDock offers
DockShapes == {"heart", "sphere", "flower", "spiral"}

NextShape ==
    \/ \E direction \in {"next", "prev"} : handleGesture(direction)
    \/ \E shape \in DockShapes : handleShapeChange(shape)

\* the shape names a call passes: the four of ShapeType and one outside it
ShapeNames == DockShapes \cup {"cube"}

\* the particle counts a call passes: those up to MaxCount for which the spiral
\* has rational coordinates
Counts == {c \in 1..MaxCount : 20 % c = 0}

NextGenerate ==
    \E impl \in Implementations, type \in ShapeNames, count \in Counts :
        Generate(impl, type, count)

\* what the rendered page is run with: no hand, a hand right of the frame, a
\* hand with a NaN wrist
RenderInputs ==
    {NoList, Results(<<FullHand(Num(2), WideOpen)>>), Results(<<FullHand(NaN, HalfOpen)>>)}

\* the page while the controller tracks: results, frames of 1/4 s and status polls
NextRender ==
    \/ \E results \in RenderInputs, dt \in SignalDelays : OnResults(results, dt)
    \/ FrameStep(R(1, 4), [i \in 1..ParticleCount(device) |-> 1])
    \/ StatusPoll

\* the shapes selected in a session
SessionShapes == {"heart", "flower"}

\* a session of the particle system: resizes, selections in the dock and frames
\* of 1/4 s
NextSession ==
    \/ \E d \in Devices : Resize(d)
    \/ \E shape \in SessionShapes : handleShapeChange(shape)
    \/ \E sines \in SineSamples(ParticleCount(device)) : FrameStep(R(1, 4), sines)

NextFrame ==
    \E delta \in FrameDeltas, sines \in SineSamples(ParticleCount(device)) :
        FrameStep(delta, sines)

Next ==
    \/ Mount
    \/ Rerun
    \/ Unmount
    \/ ScriptLoad
    \/ ScriptError
    \/ \E i \in Instances :
          \/ InitAfterScript(i)
          \/ GetUserMediaSettles(i)
          \/ InitAfterMetadata(i)
          \/ \E results \in LifecycleInputs, dt \in LifecycleDelays : ResultsCallback(i, results, dt)
          \/ SendFails(i)
          \/ AfterSend(i)
          \/ AnimationFrame(i)
          \/ CloseTimer(i)

\* the controller from mount to unmount
Spec == Init /\ [][Next]_vars

\* the running controller fed with hand movements
SpecSwipe == InitTracking /\ [][NextSwipe]_vars

\* the running controller fed with movements at and around the swipe threshold
SpecThreshold == InitTracking /\ [][NextThreshold]_vars

\* the running controller fed with arbitrary results
SpecSignals == InitTracking /\ [][NextSignals]_vars

\* the running controller fed with hands of finite coordinates
SpecRange == InitTracking /\ [][NextRange]_vars

\* the shared record under processResults and resetSharedState
SpecChannel == InitTracking /\ [][NextChannel]_vars

\* the frame loop of the particle system
SpecFrame == InitFrame /\ [][NextFrame]_vars

\* the page under swipes and selections in the dock
SpecShape == InitTracking /\ [][NextShape]_vars

\* the record between its writer and its readers
SpecRender == InitTracking /\ [][NextRender]_vars

\* the particle system under resizes, shape selections and frames
SpecSession == InitTracking /\ [][NextSession]_vars

\* the position generators called with any shape name and count
SpecGenerate == InitTracking /\ [][NextGenerate]_vars

-----------------------------------------------------------------------------
(* Properties of the gesture extractor                                     *)

\* C1: after any sequence of processResults calls on a running controller, with
\* landmark coordinates of any value, sharedState.pinchDistance is within
\* [0, 1.5] and sharedState.handX is within [0, 1].
C1_BoundedSignals ==
    /\ RLe(Num(0), sharedState.pinchDistance)
    /\ RLe(sharedState.pinchDistance, R(3, 2))
    /\ RLe(Num(0), sharedState.handX)
    /\ RLe(sharedState.handX, Num(1))

\* what a call with no hand leaves of the record ss
NoHandEffect(ss) ==
    [ss EXCEPT !.handDetected = FALSE,
               !.pinchDistance = RAdd(@, RMul(RSub(Num(1), @), R(5, 100)))]

\* C2: a processResults call whose result carries a malformed hand entry
\* (landmark 0, 4 or 8 missing, or a NaN coordinate) raises no exception and
\* has exactly the effect of a call with no hand: handDetected false,
\* pinchDistance relaxed toward 1.0 by 0.05, handX unchanged, lastX none, no
\* navigation event.
C2_MalformedIsNoHand ==
    (last.kind = "malformed" /\ last.running) =>
        /\ ~last.threw
        /\ sharedState = NoHandEffect(last.pre.sharedState)
        /\ lastXRef = Null
        /\ lastSwipeTimeRef = last.pre.lastSwipeTime
        /\ last.emitted = <<>>

\* sample k of the run moved the inverted wrist x across the swipe threshold
Crossing(k) ==
    /\ k \in 2..Len(run)
    /\ RGt(RAbs(RSub(run[k].x, run[k - 1].x)), R(6, 100))

\* no navigation event in the 800 ms before time t
QuietBefore(t) == \A g \in DOMAIN gestures : gestures[g].at < t => t - gestures[g].at > 800

\* the navigation events from time t1 to time t2
EventsWithin(t1, t2) == {g \in DOMAIN gestures : t1 <= gestures[g].at /\ gestures[g].at <= t2}

Rising(i, j) == \A k \in (i + 1)..j : RGt(run[k].x, run[k - 1].x)

Falling(i, j) == \A k \in (i + 1)..j : RLt(run[k].x, run[k - 1].x)

\* the events of direction dir fired at samples i + 1 .. j of the run
Fired(i, j, dir) == {k \in (i + 1)..j : run[k].ev = <<dir>>}

\* C4 as stated: in any run of consecutive detected samples, with no navigation
\* event in the preceding 800 ms, whose inverted wrist x increases monotonically
\* by more than 0.06 in total, a next event is fired and no prev event; and
\* symmetrically for a decrease.
C4_TotalIncreaseFires ==
    \A i, j \in DOMAIN run :
        (i < j /\ QuietBefore(run[i + 1].at)) =>
            /\ (Rising(i, j) /\ RGt(RSub(run[j].x, run[i].x), R(6, 100)))
                  => (Fired(i, j, "next") # {} /\ Fired(i, j, "prev") = {})
            /\ (Falling(i, j) /\ RGt(RSub(run[i].x, run[j].x), R(6, 100)))
                  => (Fired(i, j, "prev") # {} /\ Fired(i, j, "next") = {})

\* C4, amended: a detected sample fires next exactly when the inverted wrist x
\* exceeds that of the previous sample by more than 0.06 and no navigation
\* event fell in the 800 ms before it, prev exactly when it is lower by more than
\* 0.06 under the same condition, and nothing otherwise; so a monotonic
\* increase fires no prev and a monotonic decrease no next.
C4_StepIncreaseFires ==
    \A k \in DOMAIN run :
        LET up == k > 1 /\ RGt(RSub(run[k].x, run[k - 1].x), R(6, 100))
            down == k > 1 /\ RGt(RSub(run[k - 1].x, run[k].x), R(6, 100))
            quiet == QuietBefore(run[k].at)
        IN  /\ run[k].ev = (IF up /\ quiet THEN <<"next">>
                            ELSE IF down /\ quiet THEN <<"prev">>
                            ELSE <<>>)
            /\ \A i \in 1..k : Rising(i, k) => Fired(i, k, "prev") = {}
            /\ \A i \in 1..k : Falling(i, k) => Fired(i, k, "next") = {}

\* a run that rises 0.05 and 0.05 without an event, then falls 0.2 and fires prev
C4_Witness ==
    /\ Len(run) = 4
    /\ Rising(1, 3)
    /\ RGt(RSub(run[3].x, run[1].x), R(6, 100))
    /\ Fired(1, 3, "next") = {}
    /\ run[4].ev = <<"prev">>

-----------------------------------------------------------------------------
(* Properties of the effect lifecycle                                      *)

\* C5: once the cleanup has set the stop flag of an effect instance, a results
\* callback of that instance (the result of a send dispatched before the
\* cleanup included) changes neither sharedState, lastX nor lastSwipeTime and
\* emits no navigation event, and the instance has no animation frame scheduled.
C5_StoppedIsDiscarded ==
    /\ (last.kind # "none" /\ ~last.running) =>
          /\ sharedState = last.pre.sharedState
          /\ lastXRef = last.pre.lastX
          /\ lastSwipeTimeRef = last.pre.lastSwipeTime
          /\ last.emitted = <<>>
          /\ \A g \in DOMAIN gestures : gestures[g].at # last.at
    /\ \A i \in Instances : ~isRunning[i] => detectPc[i] # "raf"

\* a result with a hand was delivered to an instance after its cleanup, and the
\* instance's loop has ended
C5_Witness ==
    /\ last.kind = "hand"
    /\ ~last.running
    /\ isRunning[1] = FALSE
    /\ initPc[1] = "done"
    /\ detectPc[1] = "off"

\* init and the cleanup of instance i have both finished, the timer of the
\* cleanup included
Finished(i) ==
    /\ initPc[i] \in {"done", "failed"}
    /\ ~isRunning[i]
    /\ ~closeTimer[i]

\* C6: in every interleaving of the init steps with the cleanup, once both have
\* finished no camera stream the instance acquired is live and the Hands
\* instance it created is closed.
C6_NothingLeaks ==
    \A i \in Instances : Finished(i) => (stream[i] # "live" /\ hands[i] # "open")

\* C7: if the init of the current effect instance fails, the error is passed
\* to onError (once), no detection tick of the instance is scheduled, and
\* sharedState holds its default values.
C7_FailedInitKeepsDefaults ==
    (effects >= 1 /\ initPc[effects] = "failed") =>
        /\ onErrors[effects].init = 1
        /\ detectPc[effects] = "off"
        /\ sharedState = [handDetected |-> FALSE, pinchDistance |-> Num(1),
                          handX |-> R(1, 2), handY |-> R(1, 2)]

\* C8: before any processResults call the record holds handDetected = false,
\* pinchDistance = 1.0, handX = 0.5, handY = 0.5, and resetSharedState restores
\* these values from any record.
C8_DefaultsAndReset ==
    (calls = 0 \/ last.kind = "reset") =>
        sharedState = [handDetected |-> FALSE, pinchDistance |-> <<1, 1>>,
                       handX |-> <<1, 2>>, handY |-> <<1, 2>>]

\* resetSharedState was called on a record with a hand detected, handX off 0.5
\* and pinchDistance off 1.0
C8_Witness ==
    /\ last.kind = "reset"
    /\ calls > 0
    /\ last.pre.sharedState.handDetected
    /\ last.pre.sharedState.handX # R(1, 2)
    /\ last.pre.sharedState.pinchDistance # Num(1)

-----------------------------------------------------------------------------
(* Properties of the frame step                                            *)

\* the particle buffer entry k belongs to (from 1)
ParticleOf(k) == ((k - 1) \div 3) + 1

\* the offset of buffer entry k of positions from its target scaled by factor
Offset(positions, targets, k, factor) == RSub(positions[k], RMul(targets[k], factor))

C10_ExpansionFormula ==
    frames > 0 =>
        LET p == lastFrame.pinchDistance
            e == IF RLe(p, R(95, 100))
                 THEN RAdd(R(2, 10), RMul(R(8, 10), p))
                 ELSE RAdd(Num(1), RMul(Num(5), RSub(p, R(95, 100))))
        IN  /\ lastFrame.expansion = e
            /\ p = R(13, 10) => lastFrame.expansion = R(275, 100)
            /\ \A k \in DOMAIN currentPositions :
                  currentPositions[k] =
                      RAdd(lastFrame.pre[k],
                           RMul(RAdd(RSub(RMul(lastFrame.targets[k], e), lastFrame.pre[k]),
                                     lastFrame.noise[ParticleOf(k)]),
                                lastFrame.lerpSpeed))

\* a frame at pinch 1.3 on a desktop window, the noise on
C10_Witness ==
    /\ frames > 0
    /\ lastFrame.pinchDistance = R(13, 10)
    /\ lastFrame.expansion = R(11, 4)
    /\ device = "desktop"
    /\ noiseAmplitude # Num(0)
    /\ \E k \in DOMAIN currentPositions : currentPositions[k] # lastFrame.pre[k]

\* what the accelerated branch of the last frame, of slope 5, tends to as the
\* pinch value decreases to 0.95
AcceleratedLimit ==
    RSub(lastFrame.expansion, RMul(Num(5), RSub(lastFrame.pinchDistance, R(95, 100))))

\* C11 as stated: the expansion factor is continuous in value at the 0.95
\* threshold: the value at pinch = 0.95 equals the value the accelerated branch
\* approaches as the pinch value decreases to 0.95.
C11_ContinuousAtThreshold ==
    (frames > 0 /\ RGt(lastFrame.pinchDistance, R(95, 100))) =>
        AcceleratedLimit = calculateExpansion(R(95, 100))

\* C11, amended: the expansion factor jumps in value at the 0.95 threshold: it
\* is 0.96 at pinch = 0.95, while the accelerated branch approaches 1.0 as the
\* pinch value decreases to 0.95, a jump of 0.04 besides the jump of the rate.
C11_JumpAtThreshold ==
    frames > 0 =>
        /\ lastFrame.pinchDistance = R(95, 100) => lastFrame.expansion = R(96, 100)
        /\ RGt(lastFrame.pinchDistance, R(95, 100)) =>
              /\ AcceleratedLimit = Num(1)
              /\ RSub(AcceleratedLimit, calculateExpansion(R(95, 100))) = R(4, 100)

\* a frame just above the threshold, at pinch 0.96: expansion 1.05
C11_Witness ==
    /\ frames > 0
    /\ lastFrame.pinchDistance = R(96, 100)
    /\ lastFrame.expansion = R(105, 100)

\* buffer entry k after one single frame of the whole elapsed time, from the
\* buffer the first frame found, without noise
InOneFrame(k) ==
    SteppedPosition(lastFrame.start, lastFrame.targets, k, lastFrame.expansion, Num(0),
                    LerpSpeed(device, elapsedTime))

\* C12: for a fixed target and zero noise, frames of small delta and one frame
\* of large delta that sum to the same elapsed time leave every coordinate
\* within a small tolerance of the same value; the tolerance is taken as a
\* tenth of the coordinate's distance from its target before the first frame.
C12_FrameRateIndependent ==
    (frames > 0 /\ noiseAmplitude = Num(0)) =>
        \A k \in DOMAIN currentPositions :
            RLe(RAbs(RSub(currentPositions[k], InOneFrame(k))),
                RMul(R(1, 10), RAbs(Offset(lastFrame.start, lastFrame.targets, k,
                                           lastFrame.expansion))))

-----------------------------------------------------------------------------
(* Further properties of the gesture extractor                             *)

\* the last call was applied, reported no hand and found pinchDistance in [0, 1.5]
IdleCall ==
    /\ last.kind = "nohand"
    /\ last.running
    /\ RLe(Num(0), last.pre.sharedState.pinchDistance)
    /\ RLe(last.pre.sharedState.pinchDistance, R(3, 2))

\* C13: a call that reports no hand, from any pinchDistance in [0, 1.5],
\* multiplies pinchDistance - 1.0 by 0.95: |pinchDistance - 1.0| does not
\* increase, pinchDistance does not cross 1.0, and over consecutive no-hand
\* calls the distance from 1.0 shrinks geometrically, below any tolerance.
C13_IdleRelaxation ==
    IdleCall =>
        LET before == RSub(last.pre.sharedState.pinchDistance, Num(1))
            after == RSub(sharedState.pinchDistance, Num(1))
        IN  /\ after = RMul(R(95, 100), before)
            /\ RLe(RAbs(after), RAbs(before))
            /\ before # Num(0) => RLt(RAbs(after), RAbs(before))
            /\ RGt(before, Num(0)) => RGt(after, Num(0))
            /\ RLt(before, Num(0)) => RLt(after, Num(0))
            /\ before = Num(0) => after = Num(0)

\* a no-hand call that found pinchDistance above 1.0 after an open hand
C13_Witness ==
    /\ IdleCall
    /\ calls >= 2
    /\ RGt(last.pre.sharedState.pinchDistance, Num(1))
    /\ RLt(sharedState.pinchDistance, last.pre.sharedState.pinchDistance)

C15_AtMostOneEvent ==
    /\ Len(last.emitted) <= 1
    /\ \A g, h \in DOMAIN gestures : gestures[g].at = gestures[h].at => g = h

\* a call that invoked onGesture
C15_Witness ==
    /\ Len(last.emitted) = 1
    /\ \E g \in DOMAIN gestures : gestures[g].at = last.at

\* C16: a processResults call that reports no hand leaves handX exactly at its
\* previous value.
C16_HandXFrozen ==
    (last.kind = "nohand" /\ last.running) =>
        sharedState.handX = last.pre.sharedState.handX

\* a call without a hand found handX moved off 0.5
C16_Witness ==
    /\ last.kind = "nohand"
    /\ last.running
    /\ last.pre.sharedState.handX # R(1, 2)
    /\ ~IsNaN(last.pre.sharedState.handX)

\* C17: the first detected sample ever and the first detected sample after one
\* or more no-hand cycles emit no navigation event, whatever the wrist x and
\* whatever the wrist x before the gap; and lastX is none after a no-hand call.
C17_NoSwipeAcrossGap ==
    /\ Len(run) >= 1 => run[1].ev = <<>>
    /\ (last.kind = "nohand" /\ last.running) => lastXRef = Null
    /\ (last.running /\ last.pre.lastX = Null) => last.emitted = <<>>

\* a hand at inverted x 2, a gap, then a hand at inverted x -1 or 1/2 with the
\* cooldown long over: no event for the sample after the gap
C17_Witness ==
    /\ calls >= 3
    /\ Len(run) = 1
    /\ last.kind = "hand"
    /\ last.pre.lastX = Null
    /\ last.pre.sharedState.handX # R(1, 2)
    /\ run[1].x # Num(2)
    /\ gestures = <<>>

-----------------------------------------------------------------------------
(* Properties of the shape navigation                                      *)

\* the shape after s in the order heart, sphere, flower, spiral, heart
After(shape) ==
    CASE shape = "heart" -> "sphere"
      [] shape = "sphere" -> "flower"
      [] shape = "flower" -> "spiral"
      [] shape = "spiral" -> "heart"

\* C18: navigation cycles in the order heart, sphere, flower, spiral and
\* wraps (next from spiral gives heart, prev from heart gives spiral); next
\* followed by prev and prev followed by next return the same shape, four next
\* events return to the start; from sphere, the active shape after any sequence
\* of navigation events and selections is one of the four shapes.
C18_ShapeCycle ==
    /\ activeShape \in {"heart", "sphere", "flower", "spiral"}
    /\ \A k \in DOMAIN shapeLog :
          /\ shapeLog[k].ev = "next" => shapeLog[k].to = After(shapeLog[k].from)
          /\ shapeLog[k].ev = "prev" => shapeLog[k].from = After(shapeLog[k].to)
          /\ shapeLog[k].ev = "select" => shapeLog[k].to \in {"heart", "sphere", "flower", "spiral"}
          /\ (shapeLog[k].ev = "next" /\ shapeLog[k].from = "spiral") => shapeLog[k].to = "heart"
          /\ (shapeLog[k].ev = "prev" /\ shapeLog[k].from = "heart") => shapeLog[k].to = "spiral"
    /\ \A k \in DOMAIN shapeLog :
          (k + 1 \in DOMAIN shapeLog /\ {shapeLog[k].ev, shapeLog[k + 1].ev} = {"next", "prev"})
              => shapeLog[k + 1].to = shapeLog[k].from
    /\ \A k \in DOMAIN shapeLog :
          (k + 3 \in DOMAIN shapeLog /\ \A j \in k..(k + 3) : shapeLog[j].ev = "next")
              => shapeLog[k + 3].to = shapeLog[k].from
    /\ shapeLog = <<>> => activeShape = "sphere"
    /\ shapeLog # <<>> => activeShape = shapeLog[Len(shapeLog)].to

\* four next events in a row from sphere, through the wrap from spiral to heart
C18_Witness ==
    /\ Len(shapeLog) >= 4
    /\ \A j \in 1..4 : shapeLog[j].ev = "next"
    /\ shapeLog[1].from = "sphere"
    /\ shapeLog[3].from = "spiral"
    /\ shapeLog[3].to = "heart"
    /\ shapeLog[4].to = "sphere"

-----------------------------------------------------------------------------
(* Properties of the position generators                                   *)

\* particle i (from 0) of a position buffer
TripleAt(buffer, i) == <<buffer[3 * i + 1], buffer[3 * i + 2], buffer[3 * i + 3]>>

Square(a) == RMul(a, a)

\* x^2 + y^2 + z^2 = 36
OnSphere(p) == RAdd(RAdd(Square(p[1]), Square(p[2])), Square(p[3])) = Num(36)

\* what the formulas of the four formations say of particle i of count, whatever
\* the random draws: the sphere has radius 6; the heart is within |x| <= 4.8,
\* |z| <= 1.2 and away from the origin; the flower has x^2 + y^2 <= 25 and
\* |z| <= 2; the spiral has height 10 (i / count - 1/2) and radius 8 i / count
OnFormation(type, p, i, count) ==
    /\ \A k \in 1..3 : ~IsNaN(p[k])
    /\ type = "sphere" => OnSphere(p)
    /\ type = "heart" =>
          /\ RLe(RAbs(p[1]), R(48, 10))
          /\ RLe(RAbs(p[3]), R(12, 10))
          /\ p # <<Num(0), Num(0), Num(0)>>
    /\ type = "flower" =>
          /\ RLe(RAdd(Square(p[1]), Square(p[2])), Num(25))
          /\ RLe(RAbs(p[3]), Num(2))
    /\ type = "spiral" =>
          /\ p[2] = R(10 * (2 * i - count), 2 * count)
          /\ RAdd(Square(p[1]), Square(p[3])) = R(64 * i * i, count * count)

\* C19: for each of the four shapes and every count > 0, a generatePositions
\* call returns a buffer of exactly 3 * count entries, and the triple of every
\* particle index from 0 to count - 1 holds a point that the formation's
\* formula gives for that index: none is left as allocated.
C19_ExactlyCountTriples ==
    (generated.impl # "none" /\ generated.type \in {"heart", "sphere", "flower", "spiral"})
        => /\ generated.count > 0
           /\ DOMAIN generated.positions = 1..(3 * generated.count)
           /\ \A i \in 0..(generated.count - 1) :
                 OnFormation(generated.type, TripleAt(generated.positions, i), i, generated.count)

\* the library generator returned a spiral of four particles and, in another
\* call, a sphere of four with both sample points in it
C19_Witness ==
    /\ generated.impl = "lib"
    /\ generated.count = 4
    /\ \/ generated.type = "spiral"
       \/ /\ generated.type = "sphere"
          /\ TripleAt(generated.positions, 0) # TripleAt(generated.positions, 3)

\* C20: for a shape name outside the four known ones, every generatePositions
\* implementation returns points of the radius-6 sphere.
C20_UnknownIsSphere ==
    (generated.impl # "none" /\ generated.type \notin {"heart", "sphere", "flower", "spiral"})
        => \A i \in 0..(generated.count - 1) : OnSphere(TripleAt(generated.positions, i))

-----------------------------------------------------------------------------
(* Properties of a session of the particle system                          *)

\* the entries of a buffer of n triples
EntriesOf(n) == 1..(3 * n)

\* C21: in every frame the count the loop iterates over is the number of
\* triples of the position buffer, of the target buffer and of the color buffer
\* the frame works on, and it is the count the session was mounted with.
C21_CountMatchesBuffers ==
    frames > 0
        => /\ DOMAIN lastFrame.pre = EntriesOf(lastFrame.count)
           /\ DOMAIN lastFrame.targets = EntriesOf(lastFrame.count)
           /\ DOMAIN lastFrame.colors = EntriesOf(lastFrame.count)
           /\ DOMAIN lastFrame.start = EntriesOf(lastFrame.count)

\* C22: a step recomputes the target buffer only if it changes the active
\* shape or the particle count, so neither a frame nor the selection of the
\* shape that is already active does; and a step that changes the active shape
\* leaves the current position buffer as it is.
C22_TargetMemo ==
    [][/\ (regenerations' # regenerations \/ targetPositions' # targetPositions)
           => (activeShape' # activeShape \/ ParticleCount(device') # ParticleCount(device))
       /\ activeShape' # activeShape => currentPositions' = currentPositions]_vars

\* after a frame, a shape was selected that was not active and one that was,
\* and the memo was recomputed once for each selection of the first kind
C22_Witness ==
    /\ frames > 0
    /\ resizes = 0
    /\ \E k \in DOMAIN shapeLog : shapeLog[k].from = shapeLog[k].to
    /\ \E k \in DOMAIN shapeLog : shapeLog[k].from # shapeLog[k].to
    /\ regenerations = Cardinality({k \in DOMAIN shapeLog : shapeLog[k].from # shapeLog[k].to})
    /\ currentPositions # targetPositions

-----------------------------------------------------------------------------
(* Properties of the record between its writer and its readers             *)

\* C23: a step changes the shared record only if it is a processResults call;
\* a frame step and a status poll leave all four fields as they are.
C23_SingleWriter ==
    [][/\ sharedState' # sharedState => calls' = calls + 1
       /\ frames' # frames => sharedState' = sharedState
       /\ headerHandDetected' # headerHandDetected => sharedState' = sharedState]_vars

\* the poll has shown a hand, a frame has been rendered, and the record has
\* been written since
C23_Witness ==
    /\ headerHandDetected
    /\ frames > 0
    /\ calls > 1
    /\ ~sharedState.handDetected
    /\ sharedState.pinchDistance # Num(1)

\* the r, g, b of HSL (0.6, 0.1, 0.2)
IdleColor == <<R(9, 50), R(49, 250), R(11, 50)>>

\* C24: the colors a frame leaves follow the handDetected it read: without a
\* hand every particle has the idle color; with a hand the hue of particle i
\* is (handX + (i / N) * 0.2) mod 1 as the frame computes it, a value in
\* [0, 1), and its color is that hue at saturation 0.8 and lightness 0.6.
C24_PaletteOfTheFrame ==
    frames > 0
        => \A i \in 0..(lastFrame.count - 1) :
              IF lastFrame.handDetected
              THEN LET hue == ActiveHue(lastFrame.handX, i, lastFrame.count)
                   IN  /\ RLe(Num(0), hue)
                       /\ RLt(hue, Num(1))
                       /\ TripleAt(colorArray, i) = SetHSL(hue, R(8, 10), R(6, 10))
              ELSE TripleAt(colorArray, i) = IdleColor

-----------------------------------------------------------------------------
(* The swipe rule                                                          *)

\* the inverted wrist x of the hand of the last call
LastCurrentX == RSub(Num(1), last.results.list[1][WRIST].x)

-----------------------------------------------------------------------------
(* Properties of the detection loop and of the script loader               *)

\* C26: when a rejected send is handled, the instance still running, onError
\* is called once and the next animation frame is requested; when the instance
\* was stopped meanwhile, nothing is reported. A running instance whose init is
\* done never has its loop ended.
C26_FailedSendKeepsLoop ==
    [][\A i \in Instances :
          /\ (detectPc[i] = "rejected" /\ detectPc'[i] # "rejected")
                => IF isRunning[i]
                   THEN /\ onErrors'[i].send = onErrors[i].send + 1
                        /\ detectPc'[i] = "raf"
                        /\ requestRef' = i
                   ELSE /\ onErrors' = onErrors
                        /\ detectPc'[i] = "off"
          /\ (isRunning'[i] /\ initPc'[i] = "done") => detectPc'[i] # "off"]_vars

\* a send of a running instance failed and was reported, and the instance is
\* sending again
C26_Witness ==
    \E i \in Instances :
        /\ isRunning[i]
        /\ onErrors[i].send = 1
        /\ detectPc[i] = "sending"
        /\ sends = 2

\* C27: the script element is appended at most once, and an init that is past
\* loadScript finds the script loaded.
C27_ScriptLoadedOnce ==
    /\ scriptAppends <= 1
    /\ \A i \in Instances :
          initPc[i] \in {"getUserMedia", "loadedmetadata", "done"} => scriptEl = "loaded"

\* C28: for each run of the effect, a send starts only while the run is
\* running and has no send unsettled, and the next animation frame is requested
\* only when the send has settled or without a send; a tick that sends nothing
\* leaves the next tick pending; the pending tick is the one request held in
\* requestRef, so at most one is pending.
C28_OneSendOneTick ==
    [][\A i \in Instances :
          LET started == detectPc'[i] = "sending" /\ detectPc[i] # "sending"
              scheduled == detectPc'[i] = "raf" /\ detectPc[i] # "raf"
          IN  /\ started => /\ isRunning[i]
                            /\ detectPc[i] \in {"off", "raf"}
                            /\ sends' = sends + 1
              /\ scheduled => /\ isRunning[i]
                              /\ detectPc[i] \in {"off", "resolved", "rejected"}
              /\ (detectPc[i] = "raf" /\ isRunning'[i] /\ ~started) => detectPc'[i] = "raf"
              /\ detectPc'[i] = "raf" => requestRef' = i]_vars

\* a send has settled with a result and the next tick of the running instance
\* is pending
C28_Witness ==
    \E i \in Instances :
        /\ isRunning[i]
        /\ detectPc[i] = "raf"
        /\ requestRef = i
        /\ sends >= 1
        /\ calls >= 1

-----------------------------------------------------------------------------
(* The frame step as a contraction                                         *)

\* C29: a frame without noise leaves every coordinate no farther from its
\* expanded target than before and on the same side of it.
C29_NoOvershoot ==
    (frames > 0 /\ \A i \in DOMAIN lastFrame.noise : lastFrame.noise[i] = Num(0))
        => \A k \in DOMAIN currentPositions :
              LET target == ExpandedTarget(lastFrame.targets, k, lastFrame.expansion)
                  before == RSub(lastFrame.pre[k], target)
                  after == RSub(currentPositions[k], target)
              IN  /\ RLe(RAbs(after), RAbs(before))
                  /\ RLe(Num(0), RMul(after, before))

====
